---- MODULE Spec2Model ----
(***************************************************************************)
(* A model of the PropertyRent backend: the rule-based chatbot             *)
(* conversation engine (routes /chatbot/start, /chatbot/respond,           *)
(* /chatbot/satisfaction and the flow controllers behind them), the        *)
(* authentication / role dependencies of the admin routes, the screening   *)
(* submission with its automatic recommendation, the rental application    *)
(* submission and the property match scorer.                               *)
(*                                                                         *)
(* Each HTTP handler is one atomic action (one request per coroutine; the  *)
(* handlers hold no state between requests, everything lives in the        *)
(* database tables modelled by the variables).                             *)
(***************************************************************************)
EXTENDS Integers, Sequences, FiniteSets, TLC

VARIABLES
    conversations,  \* table chatbot_conversations: session_id -> row, or NoConv
    messages,       \* table chatbot_messages: session_id -> rows in creation order
    escalations,    \* table chatbot_escalations: session_id -> rows
    meetings,       \* table schedule_meetings: rows created by the chatbot
    properties,     \* table properties: the ids of the rows it holds
    screening,      \* tables screening_questions, screening_responses, property_recommendations
    applications,   \* table rental_applications: the rows created
    request,        \* the HTTP request (or the function call) handled last
    reply           \* the HTTP response to it (or the function's result)

chatVars == <<conversations, messages, escalations, meetings, properties>>
otherVars == <<screening, applications>>
vars == <<conversations, messages, escalations, meetings, properties, screening, applications,
          request, reply>>

(***************************************************************************)
(* Bounds of the model.                                                    *)
(***************************************************************************)
\* messages stored per conversation before the model stops accepting answers
MaxMsgs == 10
\* escalations stored before the model stops accepting "not satisfied"
MaxEscalations == 2
\* screening responses stored before the model stops accepting submissions
MaxResponses == 2
\* rental applications stored before the model stops accepting submissions
MaxApplications == 3

(***************************************************************************)
(* Values.                                                                 *)
(***************************************************************************)
SessionIds == {"s1"}            \* session ids a conversation can be stored under
GhostSession == "s0"            \* a session id no conversation is ever stored under
PropertyIds == {"p1"}           \* ids of Property rows that may exist

NoAnswer == "<null>"            \* ChatbotMessage.user_response IS NULL
NoFlow == "<null>"              \* ChatbotConversation.flow_type IS NULL
NoText == "<none>"              \* an absent JSON field / Python None

\* primary keys (uuid4) of the screening tables
Uuids == {"u1", "u2", "u3"}
QuestionIds == {"u1", "u2"}     \* ids a ScreeningQuestion row may have
\* the screening tables without rows
ScreeningIdle ==
    [questions |-> [q \in QuestionIds |-> "absent"], responses |-> << >>,
     recommendations |-> << >>]

\* ConversationStatus, src/model/chatbotModel.py
ACTIVE == "active"
COMPLETED == "completed"
ESCALATED == "escalated"
ABANDONED == "abandoned"

\* ChatbotFlowType, src/model/chatbotModel.py
PROPERTY_SEARCH == "property_search"
RENT_INQUIRY == "rent_inquiry"
SCHEDULE_VISIT == "schedule_visit"
GENERAL_SUPPORT == "general_support"
BUG_REPORT == "bug_report"
FEEDBACK == "feedback"

(***************************************************************************)
(* User answers.  An answer is the text the client sends; Lower is         *)
(* str.lower() on the answers the model draws from.                        *)
(***************************************************************************)
InitialOptions ==
    {"Find a property to rent", "Ask about a specific property",
     "Schedule a property visit", "Report an issue", "Give feedback"}

Lower(t) ==
    CASE t = "Find a property to rent" -> "find a property to rent"
      [] t = "FIND A PROPERTY TO RENT" -> "find a property to rent"
      [] t = "Ask about a specific property" -> "ask about a specific property"
      [] t = "ask About A Specific Property" -> "ask about a specific property"
      [] t = "Schedule a property visit" -> "schedule a property visit"
      [] t = "SCHEDULE A PROPERTY VISIT" -> "schedule a property visit"
      [] t = "Report an issue" -> "report an issue"
      [] t = "REPORT AN ISSUE" -> "report an issue"
      [] t = "Give feedback" -> "give feedback"
      [] t = "GIVE FEEDBACK" -> "give feedback"
      [] t = "Yes" -> "yes"
      [] t = "YES" -> "yes"
      [] t = "No" -> "no"
      [] t = "Proceed Next" -> "proceed next"
      [] t = "Email" -> "email"
      [] t = "Phone" -> "phone"
      [] t = "WhatsApp" -> "whatsapp"
      [] t = "Website bug" -> "website bug"
      [] t = "Search not working" -> "search not working"
      [] t = "Other technical issue" -> "other technical issue"
      [] t = "Property not found error" -> "property not found error"
      [] t = "Customer support" -> "customer support"
      [] t = "Yes, please contact me" -> "yes, please contact me"
      [] t = "No, thank you" -> "no, thank you"
      [] t = "Yes, I'm satisfied" -> "yes, i'm satisfied"
      [] t = "No, I need more help" -> "no, i need more help"
      [] t = "Morning (9AM-12PM)" -> "morning (9am-12pm)"
      [] t = "Excellent (5/5)" -> "excellent (5/5)"
      [] t = "Good (4/5)" -> "good (4/5)"
      [] t = "Average (3/5)" -> "average (3/5)"
      [] t = "Very Poor (1/5)" -> "very poor (1/5)"
      [] t = "Hi! I'm your property assistant" -> "hi! i'm your property assistant"
      [] OTHER -> t

\* Python truthiness of an optional string: None and "" are false
Truthy(t) == t \notin {NoAnswer, NoText, ""}

(***************************************************************************)
(* Question texts.  A stored question is a template name q plus the user   *)
(* text echoed into it (arg, "" when the template echoes nothing):         *)
(*   QInitial      Hi! I'm your property assistant. How can I help you     *)
(*                 today?                                                  *)
(*   QPsType .. QPsEmail   the eight property_search questions of FLOWS    *)
(*   QPsDone       Thank you for providing your property preferences ...   *)
(*   QRentMind     Do you have a specific property in mind?                *)
(*   QVisitWhich   Which property would you like to visit?       (FLOWS)   *)
(*   QVisitWhichKw Which property would you like to visit? Please provide  *)
(*                 the property name or keywords:           (controller)   *)
(*   QBugType      What type of issue would you like to report?            *)
(*   QFbAspect     What aspect would you like to give feedback about?      *)
(*                                                               (FLOWS)   *)
(*   QFbArea       What area would you like to give feedback about?        *)
(*                                                          (controller)   *)
(*   QSatisfaction Are you satisfied with the assistance provided?         *)
(*   QRentKeyword  Please provide the property name or keyword you're      *)
(*                 looking for:                                            *)
(*   QRentBrowse   Here are some available properties you might be         *)
(*                 interested in:                                          *)
(*   QRentFound    I found N properties matching '<arg>'. Please select    *)
(*                 one:                                                    *)
(*   QRentNone     Sorry, I couldn't find any properties matching '<arg>'. *)
(*                 Here are some available properties you might like:      *)
(*   QRentGeneralEmail  Please provide your email address so we can notify *)
(*                 you when we have properties matching your preferences:  *)
(*   QRentInfo     the details text of _handle_information_request         *)
(*   QContactMethod     What's your preferred contact method?              *)
(*   QContactEmail / QContactPhone / QContactWhatsapp / QContactInfo       *)
(*                 Please provide your email address: / phone number: /    *)
(*                 WhatsApp number: / contact information:                 *)
(*   QVisitFound   I found N properties matching '<arg>'. Please select a  *)
(*                 property to visit:                                      *)
(*   QVisitNone    Sorry, I couldn't find any properties matching '<arg>'. *)
(*                 Could you try with different keywords or contact our    *)
(*                 support team?                                           *)
(*   QVisitDate / QVisitTime / QVisitName / QVisitPhone / QVisitEmail      *)
(*                 What's your preferred date for the visit? / What time   *)
(*                 works best for you? / What's your full name? / What's   *)
(*                 your contact number? / What's your email address?       *)
(*   QBugDescribe  Please describe what exactly happened. Include steps    *)
(*                 to reproduce the issue if possible:                     *)
(*   QBugPropDetails    Please provide details about the property search   *)
(*                 issue:                                                  *)
(*   QBugMoreDetails    Please provide more details about the issue:       *)
(*   QBugDevice    What device/browser are you using? (This helps us       *)
(*                 reproduce the issue)                                    *)
(*   QBugUrgency   How urgent is this issue for you?                       *)
(*   QBugEmail     Please provide your email address so we can follow up   *)
(*                 on this issue:                                          *)
(*   QFbRate       Please rate your experience with <arg>:                 *)
(*   QFbLiked      Great! What specifically did you like about our <arg>?  *)
(*   QFbImprove    What would you like us to improve about our <arg>?      *)
(*   QFbSuggest    Any suggestions for improvement or new features you'd   *)
(*                 like to see?                                            *)
(*   QFbFollowup   Would you like us to follow up with you about your      *)
(*                 feedback?                                               *)
(*   QFbEmail      Please provide your email address so we can follow up   *)
(*                 with you:                                               *)
(*                                                                         *)
(* The controllers route an answer by testing the pending question's text  *)
(* for fixed phrases.  TemplatePhrases(q) is the set of those phrases the  *)
(* text of template q holds, computed from the texts above:                *)
(*   lower-case substring tests are named by their words; "_cs" marks a    *)
(*   test on the text as stored; "pre_" a startswith test; "ps_email_exact"*)
(*   is the equality test of PropertySearchController.handle_response.     *)
(***************************************************************************)
TemplatePhrases(q) ==
    CASE q = "QInitial" -> {"hi_assistant"}
      [] q = "QPsEmail" -> {"please_provide_your_email", "pre_please_provide_your"}
      [] q = "QRentMind" -> {"specific_property_in_mind"}
      [] q = "QVisitWhich" -> {"which_property_visit"}
      [] q = "QBugType" -> {"what_type_of_issue"}
      [] q = "QRentKeyword" -> {"property_name_or_keyword"}
      [] q = "QRentBrowse" -> {"here_are_some_available"}
      [] q = "QRentFound" -> {"i_found", "properties_matching", "properties_matching_cs"}
      [] q = "QRentNone" -> {"Sorry_no_properties_cs", "here_are_some_available",
                             "properties_matching", "properties_matching_cs",
                             "sorry_no_properties_matching"}
      [] q = "QRentGeneralEmail" -> {"please_provide_your_email", "pre_please_provide_your",
                                     "properties_matching", "properties_matching_cs"}
      [] q = "QContactMethod" -> {"preferred_contact_method"}
      [] q = "QContactEmail" -> {"please_provide_your_email", "pre_please_provide_your"}
      [] q = "QContactPhone" -> {"pre_please_provide_your"}
      [] q = "QContactWhatsapp" -> {"pre_please_provide_your"}
      [] q = "QContactInfo" -> {"pre_please_provide_your"}
      [] q = "QVisitWhichKw" -> {"property_name_or_keyword", "which_property_visit"}
      [] q = "QVisitFound" -> {"i_found", "properties_matching", "properties_matching_cs",
                               "select_property_to_visit"}
      [] q = "QVisitNone" -> {"Sorry_no_properties_cs", "properties_matching",
                              "properties_matching_cs", "sorry_no_properties_matching"}
      [] q = "QVisitDate" -> {"preferred_date"}
      [] q = "QVisitTime" -> {"what_time"}
      [] q = "QVisitName" -> {"full_name"}
      [] q = "QVisitPhone" -> {"contact_number"}
      [] q = "QVisitEmail" -> {"email_address", "whats_your_email"}
      [] q = "QBugDescribe" -> {"please_describe"}
      [] q = "QBugPropDetails" -> {"please_provide_details"}
      [] q = "QBugDevice" -> {"what_device"}
      [] q = "QBugUrgency" -> {"how_urgent"}
      [] q = "QBugEmail" -> {"please_provide_your_email", "pre_please_provide_your"}
      [] q = "QFbArea" -> {"what_area_feedback"}
      [] q = "QFbRate" -> {"please_rate"}
      [] q = "QFbLiked" -> {"what_specifically"}
      [] q = "QFbSuggest" -> {"any_suggestions", "improvement", "suggestions"}
      [] q = "QFbFollowup" -> {"follow_up"}
      [] q = "QFbEmail" -> {"please_provide_your_email", "pre_please_provide_your"}
      [] OTHER -> {}

\* the phrases held by a user text echoed into a question (lower-cased where the
\* test lower-cases): the f-strings of _handle_keyword_search and
\* _handle_property_search copy the keyword into the question as typed
EchoPhrases(arg) ==
    IF Lower(arg) = "hi! i'm your property assistant" THEN {"hi_assistant"} ELSE {}

\* `phrase in question_text` for the stored question m
Has(m, phrase) == phrase \in TemplatePhrases(m.q) \cup EchoPhrases(m.arg)

(***************************************************************************)
(* ChatbotFlowEngine, src/controller/chatbot/chatbotEngine.py              *)
(***************************************************************************)
\* FLOWS: flow name -> its predefined questions; final is the entry's explicit
\* "is_final" ("unset" when the entry has none)
FlowEntry(q) == [q |-> q, final |-> "unset"]
FLOWS(flow) ==
    CASE flow = "initial" -> <<FlowEntry("QInitial")>>
      [] flow = PROPERTY_SEARCH ->
            <<FlowEntry("QPsType"), FlowEntry("QPsCity"), FlowEntry("QPsBudget"),
              FlowEntry("QPsBedrooms"), FlowEntry("QPsPets"), FlowEntry("QPsMoveIn"),
              FlowEntry("QPsAmenities"), [q |-> "QPsEmail", final |-> "false"]>>
      [] flow = RENT_INQUIRY -> <<FlowEntry("QRentMind")>>
      [] flow = SCHEDULE_VISIT -> <<FlowEntry("QVisitWhich")>>
      [] flow = BUG_REPORT -> <<FlowEntry("QBugType")>>
      [] flow = FEEDBACK -> <<FlowEntry("QFbAspect")>>
      [] OTHER -> << >>
FlowNames == {"initial", PROPERTY_SEARCH, RENT_INQUIRY, SCHEDULE_VISIT, BUG_REPORT, FEEDBACK}

NoQuestion == [none |-> TRUE, q |-> NoText, step_number |-> 0, is_final |-> FALSE]

\* get_initial_question
get_initial_question ==
    [none |-> FALSE, q |-> FLOWS("initial")[1].q, step_number |-> 0, is_final |-> FALSE]

\* get_next_question(flow_type, step): step indexes the flow's list from 0
get_next_question(flow_type, step) ==
    IF flow_type \notin FlowNames THEN NoQuestion
    ELSE IF step >= Len(FLOWS(flow_type)) THEN NoQuestion
    ELSE LET question_data == FLOWS(flow_type)[step + 1] IN
         [none |-> FALSE,
          q |-> question_data.q,
          step_number |-> step + 1,
          is_final |-> IF question_data.final = "unset"
                       THEN step = Len(FLOWS(flow_type)) - 1
                       ELSE question_data.final = "true"]

\* determine_flow_from_response: the lower-cased answer looked up in flow_mapping,
\* BUG_REPORT when it is no key
determine_flow_from_response(response) ==
    LET response_lower == Lower(response) IN
    CASE response_lower = "find a property to rent" -> PROPERTY_SEARCH
      [] response_lower = "ask about a specific property" -> RENT_INQUIRY
      [] response_lower = "schedule a property visit" -> SCHEDULE_VISIT
      [] response_lower = "report an issue" -> BUG_REPORT
      [] response_lower = "give feedback" -> FEEDBACK
      [] OTHER -> BUG_REPORT

(***************************************************************************)
(* Rows and replies.                                                       *)
(***************************************************************************)
\* guest_email / guest_name hold NULL, a plain text, or the controllers'
\* pipe-delimited "KEY:value|KEY:value" state: a sequence of parts, a plain text
\* being one part with the empty key
NullText == << >>
Plain(v) == <<[k |-> "", v |-> v]>>
Tagged(key, v) == <<[k |-> key, v |-> v]>>
\* `stored or ""` followed by f"{stored_data}|KEY:{v}"
AppendPart(stored, key, v) == stored \o Tagged(key, v)
StoredTruthy(stored) == stored # NullText /\ stored # Plain("")

\* ChatbotConversation.create(session_id=...): the column defaults of the model
NewConversation ==
    [exists |-> TRUE, flow_type |-> NoFlow, current_step |-> 0, status |-> ACTIVE,
     is_satisfied |-> "null", guest_email |-> NullText, guest_name |-> NullText]

\* no row under a session id
NoConv == [NewConversation EXCEPT !.exists = FALSE]

\* ChatbotMessage.create(conversation, step_number, question_text)
NewMessage(step, q, arg) ==
    [step_number |-> step, q |-> q, arg |-> arg, user_response |-> NoAnswer]

\* JSONResponse(200, {"success": True, "message": message, "data": {...}}): the
\* fields of data the properties read
JsonReply(session, message, q, arg, step, final, flow, completed, status) ==
    [code |-> 200, body |-> "json", message |-> message, session_id |-> session,
     question |-> q, arg |-> arg, step_number |-> step, is_final |-> final,
     flow_type |-> flow, conversation_completed |-> completed, status |-> status]
\* a handler that returns None: FastAPI sends 200 with the body null
NullReply(session) ==
    [code |-> 200, body |-> "null", message |-> NoText, session_id |-> session,
     question |-> NoText, arg |-> "", step_number |-> 0, is_final |-> FALSE,
     flow_type |-> NoFlow, conversation_completed |-> FALSE, status |-> NoText]
\* raise HTTPException(status_code, detail)
ErrorReply(session, status_code, detail) ==
    [code |-> status_code, body |-> "error", message |-> detail, session_id |-> session,
     question |-> NoText, arg |-> "", step_number |-> 0, is_final |-> FALSE,
     flow_type |-> NoFlow, conversation_completed |-> FALSE, status |-> NoText]
NoReply == ErrorReply(NoText, 0, NoText)

\* what a flow handler did: the conversation row as saved, the messages and
\* meetings it created, and its response
Outcome(c, add, rep) == [c |-> c, add |-> add, meet |-> << >>, rep |-> rep]

\* the common tail of the handlers: create the next message, store the step,
\* answer with the question
AskNext(session, c, q, arg, message, final) ==
    LET next_step == c.current_step + 1 IN
    Outcome([c EXCEPT !.current_step = next_step],
            <<NewMessage(next_step, q, arg)>>,
            JsonReply(session, message, q, arg, next_step, final, c.flow_type, FALSE, NoText))

(***************************************************************************)
(* ConversationController, src/controller/chatbot/conversationController.py*)
(***************************************************************************)
\* handle_satisfaction_question: the survey question becomes the next message
handle_satisfaction_question(session, c) ==
    AskNext(session, c, "QSatisfaction", "", "Satisfaction question presented", TRUE)

(***************************************************************************)
(* PropertySearchController,                                               *)
(* src/controller/chatbot/propertySearchController.py                      *)
(***************************************************************************)
\* _show_completion_message: the thank-you text is stored as one more message
\* (the is_bot_message keyword names no column and the ORM's constructor ignores
\* it), the conversation is marked completed
PropertySearch_show_completion_message(session, c) ==
    LET completion_step == c.current_step + 1 IN
    Outcome([c EXCEPT !.status = COMPLETED, !.current_step = completion_step],
            <<NewMessage(completion_step, "QPsDone", "")>>,
            JsonReply(session, "Property search completed", NoText, "", completion_step,
                      TRUE, c.flow_type, FALSE, COMPLETED))

\* a plausible slip: the flow is considered over one question early
PropertySearch_off_by_one(session, c, current_message, user_response) ==
    LET next_question_data == get_next_question(c.flow_type, c.current_step + 1) IN
    IF next_question_data.none
    THEN PropertySearch_show_completion_message(session, c)
    ELSE AskNext(session, c, next_question_data.q, "", "Next property search question",
                 next_question_data.is_final)

\* handle_response
PropertySearch_handle_response(session, c, current_message, user_response) ==
    LET question_step == c.current_step
        next_question_data == get_next_question(c.flow_type, question_step)
    IN  IF next_question_data.none
        THEN PropertySearch_show_completion_message(session, c)
        ELSE IF next_question_data.is_final /\ Truthy(user_response)
                /\ Has(current_message, "ps_email_exact")
        THEN PropertySearch_show_completion_message(session, c)
        ELSE AskNext(session, c, next_question_data.q, "", "Next property search question",
                     next_question_data.is_final)

(***************************************************************************)
(* RentInquiryController,                                                  *)
(* src/controller/chatbot/rentInquiryController.py                         *)
(***************************************************************************)
\* _get_property_titles_for_choice: Property.all().limit(7)
get_property_titles_for_choice(props) == props

\* _search_properties_by_keyword: title / description / city icontains keyword;
\* a property's id stands for a word its title holds, "" is held by every text
search_properties_by_keyword(props, keyword) ==
    IF keyword = "" THEN props ELSE {p \in props : Lower(keyword) = p}

\* _start_rent_inquiry_flow
Rent_start_rent_inquiry_flow(session, c) ==
    AskNext(session, c, "QRentMind", "", "Starting property inquiry flow", FALSE)

\* _handle_property_mind_question: "yes" asks for a keyword, "no" shows the
\* available properties or, when there are none, answers with a text it does not
\* store; any other answer falls off the end of the function, which returns None
Rent_handle_property_mind_question(session, c, props, user_response) ==
    IF Lower(user_response) = "yes"
    THEN AskNext(session, c, "QRentKeyword", "", "Please provide property name or keyword", FALSE)
    ELSE IF Lower(user_response) = "no"
    THEN IF get_property_titles_for_choice(props) # {}
         THEN AskNext(session, c, "QRentBrowse", "", "Showing available properties", FALSE)
         ELSE Outcome(c, << >>,
                      JsonReply(session, "No properties available", "TNoProperties", "",
                                c.current_step + 1, TRUE, c.flow_type, FALSE, NoText))
    ELSE Outcome(c, << >>, NullReply(session))

\* _handle_keyword_search
Rent_handle_keyword_search(session, c, props, user_response) ==
    IF search_properties_by_keyword(props, user_response) # {}
    THEN AskNext(session, c, "QRentFound", user_response, "Property search results found", FALSE)
    ELSE AskNext(session, c, "QRentNone", user_response,
                 "No search results, showing available properties", FALSE)

skip_options ==
    {"proceed next", "proceed_next", "skip property selection and continue with general inquiry",
     "skip property selection", "continue with general inquiry"}

\* _handle_property_selection: a skip option asks for an e-mail address; anything
\* else is taken as the selected property's id, kept in guest_email, and the step
\* is advanced twice before the contact-method question is stored
Rent_handle_property_selection(session, c, user_response) ==
    IF Lower(user_response) \in skip_options
    THEN AskNext(session, [c EXCEPT !.guest_email = Plain("GENERAL_INQUIRY")],
                 "QRentGeneralEmail", "", "Asking for email for general property updates", FALSE)
    ELSE AskNext(session, [c EXCEPT !.guest_email = Plain(user_response),
                                    !.current_step = c.current_step + 1],
                 "QContactMethod", "", "Property selected, asking for contact method", FALSE)

\* _handle_contact_method_selection
Rent_handle_contact_method_selection(session, c, user_response) ==
    LET contact_method == Lower(user_response)
        contact_field_question ==
            CASE contact_method = "email" -> "QContactEmail"
              [] contact_method = "phone" -> "QContactPhone"
              [] contact_method = "whatsapp" -> "QContactWhatsapp"
              [] OTHER -> "QContactInfo"
    IN  AskNext(session, [c EXCEPT !.guest_name = Plain(contact_method)],
                contact_field_question, "", "Contact method selected, asking for details", FALSE)

\* _handle_contact_details_submission: completes the conversation; the thank-you
\* text of the reply is not stored as a message
Rent_handle_contact_details_submission(session, c, user_response) ==
    LET is_general_inquiry == c.guest_email = Plain("GENERAL_INQUIRY")
        done == [c EXCEPT !.current_step = c.current_step + 1, !.status = COMPLETED]
    IN  Outcome(done, << >>,
                JsonReply(session,
                          IF is_general_inquiry THEN "Email received for general property updates"
                                                ELSE "Your inquiry has been submitted",
                          IF is_general_inquiry THEN "TRentThanksGeneral" ELSE "TRentThanks",
                          "", done.current_step, TRUE, c.flow_type, TRUE, NoText))

\* _handle_satisfaction_response: "Yes, I'm satisfied" completes the conversation;
\* any other answer resets the conversation to step 0 without a flow and stores a
\* second initial question at step 0
Rent_handle_satisfaction_response(session, c, user_response) ==
    IF Lower(user_response) = "yes, i'm satisfied"
    THEN Outcome([c EXCEPT !.is_satisfied = "true", !.status = COMPLETED], << >>,
                 JsonReply(session, "Thank you for the journey!", "TRentBye", "", 0, TRUE,
                           c.flow_type, TRUE, NoText))
    ELSE Outcome([c EXCEPT !.is_satisfied = "false", !.status = ACTIVE,
                           !.flow_type = NoFlow, !.current_step = 0],
                 <<NewMessage(0, get_initial_question.q, "")>>,
                 JsonReply(session, "Let's start over! I'm here to help you.",
                           get_initial_question.q, "", get_initial_question.step_number,
                           get_initial_question.is_final, NoFlow, FALSE, NoText))

\* _handle_default_flow
Rent_handle_default_flow(session, c) == handle_satisfaction_question(session, c)

\* handle_response: the routing on the pending question's text.  (The branches on
\* "which property would you like to know about" and "what specific information
\* do you need" test phrases no stored question holds.)
Rent_handle_response(session, c, props, current_message, user_response) ==
    IF Has(current_message, "hi_assistant") \/ c.current_step = 0
        THEN Rent_start_rent_inquiry_flow(session, c)
    ELSE IF Has(current_message, "Great_I_found") /\ Has(current_message, "properties_matching_cs")
        THEN Rent_handle_satisfaction_response(session, c, user_response)
    ELSE IF Has(current_message, "Sorry_no_properties_cs")
        THEN Rent_handle_satisfaction_response(session, c, user_response)
    ELSE IF Has(current_message, "specific_property_in_mind")
        THEN Rent_handle_property_mind_question(session, c, props, user_response)
    ELSE IF Has(current_message, "property_name_or_keyword")
        THEN Rent_handle_keyword_search(session, c, props, user_response)
    ELSE IF \/ Has(current_message, "i_found") /\ Has(current_message, "properties_matching")
            \/ Has(current_message, "here_are_some_available")
            \/ Has(current_message, "sorry_no_properties_matching")
            \/ Has(current_message, "which_property_know_about")
        THEN Rent_handle_property_selection(session, c, user_response)
    ELSE IF Has(current_message, "preferred_contact_method")
        THEN Rent_handle_contact_method_selection(session, c, user_response)
    ELSE IF Has(current_message, "pre_please_provide_your")
        THEN Rent_handle_contact_details_submission(session, c, user_response)
    ELSE Rent_handle_default_flow(session, c)

(***************************************************************************)
(* ChatbotScheduleVisitController,                                         *)
(* src/controller/chatbot/chatbotScheduleVisitController.py                *)
(***************************************************************************)
\* Outcome of a handler that may also create a ScheduleMeeting row
OutcomeMeet(c, add, meet, rep) == [c |-> c, add |-> add, meet |-> meet, rep |-> rep]

\* the value of the last "KEY:value" part of a stored pipe-delimited text, as the
\* loop over stored_data.split("|") leaves it
PartValue(stored, key) ==
    LET idx == {i \in 1..Len(stored) : stored[i].k = key} IN
    IF idx = {} THEN "" ELSE stored[CHOOSE i \in idx : \A j \in idx : j <= i].v

\* datetime.strptime(date_str, "%Y-%m-%d") succeeds
IsIsoDate(t) == t \in {"2026-12-01"}

\* the meeting_time chosen from the words of the time answer
MeetingTime(time_str) ==
    CASE Lower(time_str) = "morning (9am-12pm)" -> "10:00"
      [] Lower(time_str) = "afternoon (12pm-4pm)" -> "14:00"
      [] Lower(time_str) = "evening (4pm-7pm)" -> "17:00"
      [] OTHER -> "10:00"

\* _start_schedule_visit_flow
Visit_start_schedule_visit_flow(session, c) ==
    AskNext(session, c, "QVisitWhichKw", "", "Starting property visit scheduling", FALSE)

\* _handle_property_search (its _search_properties_by_keyword looks the keyword up
\* in title, city and address)
Visit_handle_property_search(session, c, props, user_response) ==
    IF search_properties_by_keyword(props, user_response) # {}
    THEN AskNext(session, c, "QVisitFound", user_response, "Property search results found", FALSE)
    ELSE AskNext(session, c, "QVisitNone", user_response, "No properties found", TRUE)

\* _handle_property_selection: the answer is taken as the property id; the step
\* is advanced twice
Visit_handle_property_selection(session, c, user_response) ==
    AskNext(session, [c EXCEPT !.guest_email = Plain(user_response),
                               !.current_step = c.current_step + 1],
            "QVisitDate", "", "Property selected, asking for preferred date", FALSE)

\* _handle_date_selection
Visit_handle_date_selection(session, c, user_response) ==
    AskNext(session, [c EXCEPT !.guest_name = Tagged("DATE", user_response)],
            "QVisitTime", "", "Date selected, asking for preferred time", FALSE)

\* _handle_time_selection
Visit_handle_time_selection(session, c, user_response) ==
    AskNext(session, [c EXCEPT !.guest_name = AppendPart(c.guest_name, "TIME", user_response)],
            "QVisitName", "", "Time selected, asking for full name", FALSE)

\* _handle_name_input
Visit_handle_name_input(session, c, user_response) ==
    AskNext(session, [c EXCEPT !.guest_name = AppendPart(c.guest_name, "NAME", user_response)],
            "QVisitPhone", "", "Name received, asking for contact number", FALSE)

\* _handle_phone_input
Visit_handle_phone_input(session, c, user_response) ==
    AskNext(session, [c EXCEPT !.guest_name = AppendPart(c.guest_name, "PHONE", user_response)],
            "QVisitEmail", "", "Phone number received, asking for email", FALSE)

\* _handle_email_input: the meeting is created only when the date parses (or is
\* empty, which means today) and guest_email names an existing property; a failure
\* there is swallowed, the conversation is completed in every case
Visit_handle_email_input(session, c, props, user_response) ==
    LET date_str == PartValue(c.guest_name, "DATE")
        time_str == PartValue(c.guest_name, "TIME")
        date_ok == date_str = "" \/ IsIsoDate(date_str)
        property_found == Len(c.guest_email) = 1 /\ c.guest_email[1].k = ""
                          /\ c.guest_email[1].v \in props
        meeting == [session_id |-> session,
                    property |-> c.guest_email[1].v,
                    full_name |-> PartValue(c.guest_name, "NAME"),
                    email |-> user_response,
                    phone |-> PartValue(c.guest_name, "PHONE"),
                    meeting_date |-> IF date_str = "" THEN "today" ELSE date_str,
                    meeting_time |-> MeetingTime(time_str),
                    status |-> "pending"]
    IN  OutcomeMeet([c EXCEPT !.status = COMPLETED], << >>,
                    IF date_ok /\ property_found THEN <<meeting>> ELSE << >>,
                    JsonReply(session, "Property visit scheduled successfully", "TVisitThanks",
                              "", c.current_step + 1, TRUE, c.flow_type, TRUE, NoText))

\* _handle_default_flow
Visit_handle_default_flow(session, c) == handle_satisfaction_question(session, c)

\* handle_response
Visit_handle_response(session, c, props, current_message, user_response) ==
    IF Has(current_message, "hi_assistant") \/ c.current_step = 0
        THEN Visit_start_schedule_visit_flow(session, c)
    ELSE IF Has(current_message, "which_property_visit")
        THEN Visit_handle_property_search(session, c, props, user_response)
    ELSE IF Has(current_message, "select_property_to_visit")
            \/ Has(current_message, "select_from_results")
        THEN Visit_handle_property_selection(session, c, user_response)
    ELSE IF Has(current_message, "preferred_date")
        THEN Visit_handle_date_selection(session, c, user_response)
    ELSE IF Has(current_message, "what_time")
        THEN Visit_handle_time_selection(session, c, user_response)
    ELSE IF Has(current_message, "full_name")
        THEN Visit_handle_name_input(session, c, user_response)
    ELSE IF Has(current_message, "contact_number")
        THEN Visit_handle_phone_input(session, c, user_response)
    ELSE IF Has(current_message, "email_address")
        THEN Visit_handle_email_input(session, c, props, user_response)
    ELSE Visit_handle_default_flow(session, c)

(***************************************************************************)
(* ChatbotBugReportController,                                             *)
(* src/controller/chatbot/chatbotBugReportController.py                    *)
(***************************************************************************)
technical_issue_types == {"website bug", "search not working", "other technical issue"}

\* _start_bug_report_flow
Bug_start_bug_report_flow(session, c) ==
    AskNext(session, c, "QBugType", "", "Starting bug report flow", FALSE)

\* _handle_issue_type_selection
Bug_handle_issue_type_selection(session, c, user_response) ==
    LET details_question ==
            IF Lower(user_response) \in technical_issue_types THEN "QBugDescribe"
            ELSE IF Lower(user_response) = "property not found error" THEN "QBugPropDetails"
            ELSE "QBugMoreDetails"
    IN  AskNext(session, [c EXCEPT !.guest_email = Tagged("ISSUE_TYPE", user_response)],
                details_question, "", "Issue type selected, asking for details", FALSE)

\* _ask_urgency
Bug_ask_urgency(session, c) ==
    AskNext(session, c, "QBugUrgency", "", "Technical details received, asking about urgency", FALSE)

\* _handle_issue_details: stored_data.replace("ISSUE_TYPE:", "") is the issue type
\* when the stored text is the single ISSUE_TYPE part
Bug_handle_issue_details(session, c, user_response) ==
    LET stored_data == c.guest_email
        issue_type == IF Len(stored_data) = 1 /\ stored_data[1].k = "ISSUE_TYPE"
                      THEN stored_data[1].v ELSE ""
        c1 == [c EXCEPT !.guest_email = AppendPart(stored_data, "DETAILS", user_response)]
    IN  IF Lower(issue_type) \in technical_issue_types
        THEN AskNext(session, c1, "QBugDevice", "",
                     "Issue details received, asking for technical info", FALSE)
        ELSE Bug_ask_urgency(session, c1)

\* _handle_technical_details
Bug_handle_technical_details(session, c, user_response) ==
    Bug_ask_urgency(session,
                    [c EXCEPT !.guest_email = AppendPart(c.guest_email, "TECH", user_response)])

\* _handle_urgency_selection
Bug_handle_urgency_selection(session, c, user_response) ==
    AskNext(session, [c EXCEPT !.guest_email = AppendPart(c.guest_email, "URGENCY", user_response)],
            "QBugEmail", "", "Urgency selected, asking for contact info", FALSE)

\* _handle_contact_info: completes the conversation; nothing is stored as a message
Bug_handle_contact_info(session, c, user_response) ==
    Outcome([c EXCEPT !.status = COMPLETED, !.guest_name = Plain(user_response)], << >>,
            JsonReply(session, "Bug report submitted successfully", "TBugThanks", "",
                      c.current_step + 1, TRUE, c.flow_type, TRUE, NoText))

\* _handle_default_flow
Bug_handle_default_flow(session, c) == handle_satisfaction_question(session, c)

\* handle_response
Bug_handle_response(session, c, current_message, user_response) ==
    IF Has(current_message, "hi_assistant") \/ c.current_step = 0
        THEN Bug_start_bug_report_flow(session, c)
    ELSE IF Has(current_message, "what_type_of_issue")
        THEN Bug_handle_issue_type_selection(session, c, user_response)
    ELSE IF \/ Has(current_message, "can_you_provide_more_details")
            \/ Has(current_message, "please_describe")
            \/ Has(current_message, "please_provide_details")
        THEN Bug_handle_issue_details(session, c, user_response)
    ELSE IF Has(current_message, "what_device")
        THEN Bug_handle_technical_details(session, c, user_response)
    ELSE IF Has(current_message, "how_urgent")
        THEN Bug_handle_urgency_selection(session, c, user_response)
    ELSE IF Has(current_message, "whats_your_email") \/ Has(current_message, "please_provide_your_email")
        THEN Bug_handle_contact_info(session, c, user_response)
    ELSE Bug_handle_default_flow(session, c)

(***************************************************************************)
(* ChatbotFeedbackController,                                              *)
(* src/controller/chatbot/chatbotFeedbackController.py                     *)
(***************************************************************************)
\* the rating read off the "(n/5)" marker of a rating answer, 3 without a marker
RatingValue(rating_text) ==
    CASE rating_text = "Excellent (5/5)" -> 5
      [] rating_text = "Good (4/5)" -> 4
      [] rating_text = "Average (3/5)" -> 3
      [] rating_text = "Poor (2/5)" -> 2
      [] rating_text = "Very Poor (1/5)" -> 1
      [] OTHER -> 3

\* the value of the first "KEY:value" part, "" when there is none
FirstPartValue(stored, key) ==
    LET idx == {i \in 1..Len(stored) : stored[i].k = key} IN
    IF idx = {} THEN "" ELSE stored[CHOOSE i \in idx : \A j \in idx : i <= j].v

\* _start_feedback_flow
Feedback_start_feedback_flow(session, c) ==
    AskNext(session, c, "QFbArea", "", "Starting feedback flow", FALSE)

\* _handle_feedback_category_selection: the rating question echoes the category
Feedback_handle_feedback_category_selection(session, c, user_response) ==
    AskNext(session, [c EXCEPT !.guest_email = Tagged("CATEGORY", user_response)],
            "QFbRate", Lower(user_response), "Feedback category selected, asking for rating", FALSE)

\* _handle_rating_selection: ratings of 4 and 5 are asked what was liked, lower
\* ones what to improve
Feedback_handle_rating_selection(session, c, user_response) ==
    LET stored_data == c.guest_email
        category == IF Len(stored_data) > 0 /\ stored_data[1].k = "CATEGORY"
                    THEN stored_data[1].v ELSE ""
        details_question == IF RatingValue(user_response) >= 4 THEN "QFbLiked" ELSE "QFbImprove"
    IN  AskNext(session, [c EXCEPT !.guest_email = AppendPart(stored_data, "RATING", user_response)],
                details_question, Lower(category),
                "Rating received, asking for detailed feedback", FALSE)

\* _ask_followup_preference
Feedback_ask_followup_preference(session, c) ==
    AskNext(session, c, "QFbFollowup", "", "Asking about follow-up preference", FALSE)

\* _handle_detailed_feedback
Feedback_handle_detailed_feedback(session, c, user_response) ==
    LET stored_data == c.guest_email
        rating_value == IF \E i \in 1..Len(stored_data) : stored_data[i].k = "RATING"
                        THEN RatingValue(FirstPartValue(stored_data, "RATING")) ELSE 3
        c1 == [c EXCEPT !.guest_email = AppendPart(stored_data, "DETAILS", user_response)]
    IN  IF rating_value >= 4
        THEN AskNext(session, c1, "QFbSuggest", "",
                     "Detailed feedback received, asking for suggestions", FALSE)
        ELSE Feedback_ask_followup_preference(session, c1)

\* _handle_improvement_suggestions
Feedback_handle_improvement_suggestions(session, c, user_response) ==
    Feedback_ask_followup_preference(session,
        [c EXCEPT !.guest_email = AppendPart(c.guest_email, "SUGGESTIONS", user_response)])

\* _complete_feedback: completes the conversation; nothing is stored as a message
Feedback_complete_feedback(session, c, user_email) ==
    Outcome([c EXCEPT !.status = COMPLETED,
                      !.guest_name = IF Truthy(user_email) THEN Plain(user_email) ELSE c.guest_name],
            << >>,
            JsonReply(session, "Feedback submitted successfully", "TFeedbackThanks", "",
                      c.current_step + 1, TRUE, c.flow_type, TRUE, NoText))

\* _handle_followup_preference
Feedback_handle_followup_preference(session, c, user_response) ==
    LET c1 == [c EXCEPT !.guest_email = AppendPart(c.guest_email, "FOLLOWUP", user_response)] IN
    IF Lower(user_response) = "yes, please contact me"
    THEN AskNext(session, c1, "QFbEmail", "", "Follow-up requested, asking for email", FALSE)
    ELSE Feedback_complete_feedback(session, c1, NoText)

\* _handle_contact_info
Feedback_handle_contact_info(session, c, user_response) ==
    Feedback_complete_feedback(session, c, user_response)

\* _handle_default_flow
Feedback_handle_default_flow(session, c) == handle_satisfaction_question(session, c)

\* handle_response
Feedback_handle_response(session, c, current_message, user_response) ==
    IF Has(current_message, "hi_assistant") \/ c.current_step = 0
        THEN Feedback_start_feedback_flow(session, c)
    ELSE IF Has(current_message, "what_area_feedback")
        THEN Feedback_handle_feedback_category_selection(session, c, user_response)
    ELSE IF Has(current_message, "please_rate") \/ Has(current_message, "how_would_you_rate")
        THEN Feedback_handle_rating_selection(session, c, user_response)
    ELSE IF \/ Has(current_message, "share_detailed_feedback")
            \/ Has(current_message, "what_specifically")
            \/ Has(current_message, "what_aspects")
            \/ Has(current_message, "what_did_you_like")
            \/ Has(current_message, "how_can_we_improve")
            \/ Has(current_message, "what_improvements")
        THEN Feedback_handle_detailed_feedback(session, c, user_response)
    ELSE IF \/ Has(current_message, "any_suggestions")
            \/ Has(current_message, "suggestions") /\ Has(current_message, "improvement")
        THEN Feedback_handle_improvement_suggestions(session, c, user_response)
    ELSE IF Has(current_message, "follow_up")
        THEN Feedback_handle_followup_preference(session, c, user_response)
    ELSE IF Has(current_message, "please_provide_your_email")
        THEN Feedback_handle_contact_info(session, c, user_response)
    ELSE Feedback_handle_default_flow(session, c)

(***************************************************************************)
(* MainChatbotController,                                                  *)
(* src/controller/chatbot/mainChatbotController.py                         *)
(***************************************************************************)
\* ChatbotMessage.filter(conversation=...).order_by('-step_number').first(): the
\* rows with the greatest step_number; which of several the database returns first
\* is not specified
TopIdx(msgs) ==
    {i \in 1..Len(msgs) : \A j \in 1..Len(msgs) : msgs[j].step_number <= msgs[i].step_number}

\* _handle_standard_flow
handle_standard_flow(session, c) ==
    LET next_question_data == get_next_question(c.flow_type, c.current_step) IN
    IF next_question_data.none
    THEN handle_satisfaction_question(session, c)
    ELSE AskNext(session, c, next_question_data.q, "", "Next question retrieved",
                 next_question_data.is_final)

\* the routing of handle_chat_response on the conversation's flow
RouteToFlow(session, c, props, current_message, user_response) ==
    CASE c.flow_type = PROPERTY_SEARCH ->
            PropertySearch_handle_response(session, c, current_message, user_response)
      [] c.flow_type = RENT_INQUIRY ->
            Rent_handle_response(session, c, props, current_message, user_response)
      [] c.flow_type = SCHEDULE_VISIT ->
            Visit_handle_response(session, c, props, current_message, user_response)
      [] c.flow_type = BUG_REPORT ->
            Bug_handle_response(session, c, current_message, user_response)
      [] c.flow_type = FEEDBACK ->
            Feedback_handle_response(session, c, current_message, user_response)
      [] OTHER -> handle_standard_flow(session, c)

\* the body of handle_chat_response for an active conversation whose query for
\* the current message returned row i
chat_response_outcome(session, c, props, msgs, i, user_response) ==
    IF ~Truthy(msgs[i].user_response)
    THEN LET c1 == IF c.current_step = 0 /\ c.flow_type = NoFlow
                   THEN [c EXCEPT !.flow_type = determine_flow_from_response(user_response)]
                   ELSE c
         IN  RouteToFlow(session, c1, props, msgs[i], user_response)
    ELSE handle_standard_flow(session, c)

ChatRequest(op, session, user_response, is_satisfied) ==
    [op |-> op, session_id |-> session, user_response |-> user_response,
     is_satisfied |-> is_satisfied]
(***************************************************************************)
(* The chatbot's HTTP handlers as actions.                                 *)
(***************************************************************************)
\* the answers a client is taken to send to a pending question: the options the
\* question offers that the handlers tell apart, an off-menu text ("zzz") and,
\* where emptiness matters, the empty text
Answers(q) ==
    CASE q = "QInitial" ->
            InitialOptions \cup {"FIND A PROPERTY TO RENT", "ask About A Specific Property",
                                 "SCHEDULE A PROPERTY VISIT", "REPORT AN ISSUE",
                                 "GIVE FEEDBACK", "zzz", ""}
      [] q = "QPsEmail" -> {"a@x.io", ""}
      [] q = "QRentMind" -> {"Yes", "No", "zzz", ""}
      [] q \in {"QRentKeyword", "QVisitWhich", "QVisitWhichKw"} ->
            {"p1", "zzz", "Hi! I'm your property assistant"}
      [] q \in {"QRentBrowse", "QRentFound"} -> {"p1", "Proceed Next"}
      [] q = "QRentNone" -> {"Yes, I'm satisfied", "No, I need more help", "p1"}
      [] q = "QContactMethod" -> {"Email", "WhatsApp", "zzz"}
      [] q = "QVisitFound" -> {"p1", "zzz"}
      [] q = "QVisitDate" -> {"2026-12-01", "tomorrow"}
      [] q = "QVisitTime" -> {"Morning (9AM-12PM)"}
      [] q = "QVisitName" -> {"Ann"}
      [] q = "QVisitPhone" -> {"555"}
      [] q = "QBugType" -> {"Website bug", "Property not found error", "zzz"}
      [] q = "QFbArea" -> {"Customer support"}
      [] q = "QFbRate" -> {"Excellent (5/5)", "Good (4/5)", "Average (3/5)", "zzz"}
      [] q = "QFbFollowup" -> {"Yes, please contact me", "No, thank you"}
      [] q \in {"QFbEmail", "QBugEmail", "QVisitEmail", "QRentGeneralEmail", "QContactEmail"} ->
            {"a@x.io", ""}
      [] OTHER -> {"zzz"}

\* the messages stored over all conversations
RECURSIVE TotalMsgs(_)
TotalMsgs(S) ==
    IF S = {} THEN 0
    ELSE LET s == CHOOSE x \in S : TRUE IN Len(messages[s]) + TotalMsgs(S \ {s})

RECURSIVE TotalEsc(_)
TotalEsc(S) ==
    IF S = {} THEN 0
    ELSE LET s == CHOOSE x \in S : TRUE IN Len(escalations[s]) + TotalEsc(S \ {s})

Exists(session) == session \in SessionIds /\ conversations[session].exists

Init ==
    /\ conversations = [s \in SessionIds |-> NoConv]
    /\ messages = [s \in SessionIds |-> << >>]
    /\ escalations = [s \in SessionIds |-> << >>]
    /\ meetings = << >>
    /\ properties \in SUBSET PropertyIds
    /\ screening = ScreeningIdle
    /\ applications = << >>
    /\ request = ChatRequest("none", NoText, NoText, FALSE)
    /\ reply = NoReply

\* a plausible slip: the status of the conversation is not looked at
chat_response_rejection_no_status_check(session_id) ==
    IF ~Exists(session_id) THEN 404 ELSE 0

\* the guards at the head of handle_chat_response: the status code of the
\* HTTPException raised, 0 when the request is accepted
chat_response_rejection(session_id) ==
    IF ~Exists(session_id) THEN 404
    ELSE IF conversations[session_id].status # ACTIVE THEN 400
    ELSE 0

\* a plausible slip: the conversation is completed whatever the answer
satisfaction_status_always_completed(is_satisfied) == COMPLETED

\* handle_satisfaction_response: the status the answer leaves the conversation in
satisfaction_status(is_satisfied) == IF is_satisfied THEN COMPLETED ELSE ESCALATED

\* POST /chatbot/start -> handle_start_chat.  session_id is NoText when the
\* request carries none; the id of a created conversation is then a fresh one
Start(session_id) ==
    /\ TotalMsgs(SessionIds) < MaxMsgs
    /\ request' = ChatRequest("start", session_id, NoText, FALSE)
    /\ UNCHANGED <<escalations, meetings, properties, otherVars>>
    /\ \/ \* resume: the conversation is active and its last message is unanswered
          /\ Exists(session_id)
          /\ conversations[session_id].status = ACTIVE
          /\ \E i \in TopIdx(messages[session_id]) :
                /\ ~Truthy(messages[session_id][i].user_response)
                /\ reply' = JsonReply(session_id, "Conversation resumed",
                                      messages[session_id][i].q, messages[session_id][i].arg,
                                      messages[session_id][i].step_number, FALSE,
                                      conversations[session_id].flow_type, FALSE, NoText)
          /\ UNCHANGED <<conversations, messages>>
       \/ \* otherwise a conversation is created under the given or a fresh id; the
          \* unique constraint on session_id rejects an id already stored
          /\ IF Exists(session_id)
             THEN \/ conversations[session_id].status # ACTIVE
                  \/ \E i \in TopIdx(messages[session_id]) :
                         Truthy(messages[session_id][i].user_response)
             ELSE TRUE
          /\ IF Exists(session_id)
             THEN /\ reply' = ErrorReply(session_id, 500, "Failed to start chat")
                  /\ UNCHANGED <<conversations, messages>>
             ELSE \E new_session_id \in SessionIds :
                    /\ ~conversations[new_session_id].exists
                    /\ session_id \in {NoText, new_session_id}
                    /\ conversations' = [conversations EXCEPT ![new_session_id] = NewConversation]
                    /\ messages' = [messages EXCEPT ![new_session_id] =
                                        <<NewMessage(0, get_initial_question.q, "")>>]
                    /\ reply' = JsonReply(new_session_id, "Chat started successfully",
                                          get_initial_question.q, "",
                                          get_initial_question.step_number,
                                          get_initial_question.is_final, NoFlow, FALSE, NoText)

\* POST /chatbot/respond -> handle_chat_response.  (A request that is rejected is
\* rejected whatever its user_response; the model sends "zzz" with it.)
Respond(session_id, user_response) ==
    /\ request' = ChatRequest("respond", session_id, user_response, FALSE)
    /\ UNCHANGED <<escalations, properties, otherVars>>
    /\ IF chat_response_rejection(session_id) # 0
       THEN /\ user_response = "zzz"
            /\ reply' = ErrorReply(session_id, chat_response_rejection(session_id),
                                   IF chat_response_rejection(session_id) = 404
                                   THEN "Conversation not found"
                                   ELSE "Conversation is not active")
            /\ UNCHANGED <<conversations, messages, meetings>>
       ELSE /\ TotalMsgs(SessionIds) < MaxMsgs
            /\ \E i \in TopIdx(messages[session_id]) :
                 /\ user_response \in Answers(messages[session_id][i].q)
                 /\ LET msgs == messages[session_id]
                        out == chat_response_outcome(session_id, conversations[session_id],
                                                     properties, msgs, i, user_response)
                        answered == IF ~Truthy(msgs[i].user_response)
                                    THEN [msgs EXCEPT ![i].user_response = user_response]
                                    ELSE msgs
                    IN  /\ conversations' = [conversations EXCEPT ![session_id] = out.c]
                        /\ messages' = [messages EXCEPT ![session_id] = answered \o out.add]
                        /\ meetings' = meetings \o out.meet
                        /\ reply' = out.rep

\* POST /chatbot/satisfaction -> ConversationController.handle_satisfaction_response
Satisfaction(session_id, is_satisfied) ==
    /\ request' = ChatRequest("satisfaction", session_id, NoText, is_satisfied)
    /\ UNCHANGED <<meetings, properties, otherVars>>
    /\ IF ~Exists(session_id)
       THEN /\ reply' = ErrorReply(session_id, 404, "Conversation not found")
            /\ UNCHANGED <<conversations, messages, escalations>>
       ELSE /\ is_satisfied \/ TotalEsc(SessionIds) < MaxEscalations
            /\ LET c == conversations[session_id]
                   satisfaction_text == IF is_satisfied THEN "Yes, I'm satisfied"
                                                        ELSE "No, I need more help"
               IN  /\ conversations' = [conversations EXCEPT ![session_id] =
                          [c EXCEPT !.is_satisfied = IF is_satisfied THEN "true" ELSE "false",
                                    !.status = satisfaction_status(is_satisfied)]]
                   /\ \E i \in TopIdx(messages[session_id]) :
                         messages' = [messages EXCEPT ![session_id][i].user_response =
                                          satisfaction_text]
                   /\ escalations' =
                         IF is_satisfied THEN escalations
                         ELSE [escalations EXCEPT ![session_id] = Append(@,
                                  [reason |-> "unsatisfied", priority |-> "medium",
                                   contact_email |-> IF StoredTruthy(c.guest_email)
                                                     THEN c.guest_email
                                                     ELSE Plain("unknown@example.com"),
                                   contact_name |-> IF StoredTruthy(c.guest_name)
                                                    THEN c.guest_name
                                                    ELSE Plain("Anonymous User")])]
                   /\ reply' = JsonReply(session_id,
                                         IF is_satisfied THEN "Thank you for your feedback!"
                                                         ELSE "We'll have someone contact you soon!",
                                         NoText, "", 0, FALSE, NoFlow, TRUE,
                                         IF is_satisfied THEN "not escalated" ELSE "escalated")

AllAnswers == UNION {Answers(q) : q \in {"QInitial", "QPsEmail", "QRentMind", "QRentKeyword",
                        "QRentBrowse", "QRentNone", "QContactMethod", "QVisitFound", "QVisitDate",
                        "QVisitTime", "QVisitName", "QVisitPhone", "QBugType", "QFbArea",
                        "QFbRate", "QFbFollowup", "QFbEmail", "QSatisfaction"}}

Next ==
    \/ \E session_id \in SessionIds \cup {NoText} : Start(session_id)
    \/ \E session_id \in SessionIds \cup {GhostSession}, user_response \in AllAnswers :
            Respond(session_id, user_response)
    \/ \E session_id \in SessionIds \cup {GhostSession}, is_satisfied \in BOOLEAN :
            Satisfaction(session_id, is_satisfied)

Spec == Init /\ [][Next]_vars

(***************************************************************************)
(* Properties of the chatbot handlers.                                     *)
(***************************************************************************)
\* the flow the claim pairs with each offered option
OptionFlow(option_lower) ==
    CASE option_lower = "find a property to rent" -> PROPERTY_SEARCH
      [] option_lower = "ask about a specific property" -> RENT_INQUIRY
      [] option_lower = "schedule a property visit" -> SCHEDULE_VISIT
      [] option_lower = "report an issue" -> BUG_REPORT
      [] option_lower = "give feedback" -> FEEDBACK
      [] OTHER -> NoFlow

RespondStep(s) == request'.op = "respond" /\ request'.session_id = s
                  /\ Exists(s) /\ conversations[s].status = ACTIVE

\* C2: answering the initial question of a conversation at step 0 without a flow
\* with one of the five options, in any letter case, sets flow_type to the
\* option's flow and the reply carries the first predefined question of that flow.
C2_InitialAnswerSelectsFlow ==
    [][\A s \in SessionIds :
        (/\ RespondStep(s)
         /\ conversations[s].current_step = 0
         /\ conversations[s].flow_type = NoFlow
         /\ OptionFlow(Lower(request'.user_response)) # NoFlow)
        => /\ conversations'[s].flow_type = OptionFlow(Lower(request'.user_response))
           /\ reply'.question = FLOWS(OptionFlow(Lower(request'.user_response)))[1].q]_vars

C4_ReplyIsStoredQuestionOrCompletion ==
    [][\A s \in SessionIds :
        RespondStep(s)
        => /\ reply'.body = "json"
           /\ \/ /\ conversations'[s].status = ACTIVE
                 /\ \E i \in TopIdx(messages'[s]) :
                        /\ messages'[s][i].q = reply'.question
                        /\ messages'[s][i].arg = reply'.arg
                        /\ messages'[s][i].step_number = reply'.step_number
                        /\ messages'[s][i].user_response = NoAnswer
              \/ conversations'[s].status # ACTIVE]_vars

\* C5: a /chatbot/satisfaction call for an existing conversation leaves it
\* COMPLETED and creates no escalation when is_satisfied is true, and leaves it
\* ESCALATED and creates exactly one escalation of that conversation when false.
C5_SatisfactionOutcome ==
    [][\A s \in SessionIds :
        (request'.op = "satisfaction" /\ request'.session_id = s /\ Exists(s))
        => IF request'.is_satisfied
           THEN /\ conversations'[s].status = COMPLETED
                /\ escalations' = escalations
           ELSE /\ conversations'[s].status = ESCALATED
                /\ Len(escalations'[s]) = Len(escalations[s]) + 1
                /\ \A t \in SessionIds \ {s} : escalations'[t] = escalations[t]]_vars

\* an unsatisfied answer has escalated a conversation
C5_Witness ==
    \E s \in SessionIds :
        /\ request.op = "satisfaction" /\ request.session_id = s /\ ~request.is_satisfied
        /\ Exists(s) /\ conversations[s].status = ESCALATED
        /\ Len(escalations[s]) = 1

\* C6: /chatbot/start with the session_id of an existing conversation succeeds
\* and returns that conversation, whatever its status and whether or not its
\* latest question is answered, and creates no conversation.
C6_StartResumesExisting ==
    [][\A s \in SessionIds :
        (request'.op = "start" /\ request'.session_id = s /\ Exists(s))
        => /\ reply'.code = 200
           /\ reply'.session_id = s
           /\ conversations' = conversations]_vars

\* C8: /chatbot/respond for a session id without a conversation is answered 404,
\* for a conversation that is not active 400, and in both cases no table changes.
C8_RespondRejected ==
    [][\A s \in SessionIds \cup {GhostSession} :
        (request'.op = "respond" /\ request'.session_id = s)
        => /\ ~Exists(s) => reply'.code = 404 /\ UNCHANGED chatVars
           /\ (Exists(s) /\ conversations[s].status # ACTIVE)
                => reply'.code = 400 /\ UNCHANGED chatVars]_vars

\* an answer sent to a completed conversation has been rejected with 400
C8_Witness ==
    \E s \in SessionIds :
        /\ request.op = "respond" /\ request.session_id = s /\ reply.code = 400
        /\ Exists(s) /\ conversations[s].status = COMPLETED /\ Len(messages[s]) > 1

(***************************************************************************)
(* Authentication and role dependencies: src/authMiddleware/, the          *)
(* dependencies= lists of the routes and of the routers in src/main.py.    *)
(***************************************************************************)
\* what a token carrier (cookie "token", cookie "token_middleware", Authorization:
\* Bearer) holds: nothing, a token made by create_token for a user of the given
\* role, such a token past its exp, or a token signed with another secret
TokenKinds == {"none", "user", "admin", "expired", "forged"}

NoPayload == [valid |-> FALSE, role |-> NoText]

\* validate_token: the decoded payload, None for an expired or invalid token
validate_token(token) ==
    IF token \in {"user", "admin"} THEN [valid |-> TRUE, role |-> token] ELSE NoPayload

\* what calling a dependency gives: the status of the HTTPException it raised (0
\* when it returned), the payload it returned when it returned one
Raised(status_code) == [raised |-> status_code, value |-> NoPayload]
Returned(value) == [raised |-> 0, value |-> value]

\* a plausible slip: the token found is not validated
check_for_authentication_cookie_unvalidated(req) ==
    LET token == IF req.cookie_token # "none" THEN req.cookie_token
                 ELSE IF req.cookie_token_middleware # "none" THEN req.cookie_token_middleware
                 ELSE req.bearer
    IN  IF token = "none" THEN Raised(401) ELSE Returned(validate_token(token))

\* check_for_authentication_cookie: the first carrier that holds a token wins
check_for_authentication_cookie(req) ==
    LET token == IF req.cookie_token # "none" THEN req.cookie_token
                 ELSE IF req.cookie_token_middleware # "none" THEN req.cookie_token_middleware
                 ELSE req.bearer
        user_payload == validate_token(token)
    IN  IF token = "none" THEN Raised(401)
        ELSE IF ~user_payload.valid THEN Raised(401)
        ELSE Returned(user_payload)

\* the inner role_checker of authorize_roles, with its own sub-dependency
role_checker(roles, req) ==
    LET current_user == check_for_authentication_cookie(req) IN
    IF current_user.raised # 0 THEN current_user
    ELSE IF current_user.value.role \notin roles THEN Raised(403)
    ELSE current_user

\* a callable handed to Depends
Callable(name, roles) == [callable |-> name, roles |-> roles]

\* authorize_roles(roles): returns the role_checker closure over roles
authorize_roles(roles) == Callable("role_checker", roles)

\* require_admin: a function of no arguments that returns authorize_roles(["admin"])
require_admin == Callable("require_admin", {})

\* Depends(callable): the framework calls the callable with its resolved
\* parameters; what the callable returns is the dependency's value and is not
\* called again.  Calling require_admin returns a role_checker and raises nothing.
CallDependency(dep, req) ==
    CASE dep.callable = "check_for_authentication_cookie" -> check_for_authentication_cookie(req)
      [] dep.callable = "role_checker" -> role_checker(dep.roles, req)
      [] dep.callable = "require_admin" -> Returned(NoPayload)

\* the dependencies= list of a route: the admin-only routes of src/routes/, the
\* /api/admin contact router and the /api/user router of src/main.py
RouteDependencies(route) ==
    CASE route = "admin_only" ->
            <<Callable("check_for_authentication_cookie", {}), require_admin>>
      [] route = "admin_contacts" -> <<authorize_roles({"admin"})>>
      [] route = "user_profile" -> <<authorize_roles({"user", "admin"})>>

\* the dependencies are solved in order; the first exception is the response
RECURSIVE SolveDependencies(_, _)
SolveDependencies(deps, req) ==
    IF deps = << >> THEN 0
    ELSE IF CallDependency(Head(deps), req).raised # 0
         THEN CallDependency(Head(deps), req).raised
         ELSE SolveDependencies(Tail(deps), req)

AuthRequest(route, req) ==
    [op |-> route, cookie_token |-> req.cookie_token,
     cookie_token_middleware |-> req.cookie_token_middleware, bearer |-> req.bearer]

AuthRequests ==
    [cookie_token : TokenKinds, cookie_token_middleware : TokenKinds, bearer : TokenKinds]

\* a request to a route: the handler runs when no dependency raised
ServeRoute(route, req) ==
    /\ request' = AuthRequest(route, req)
    /\ reply' = [code |-> IF SolveDependencies(RouteDependencies(route), req) # 0
                          THEN SolveDependencies(RouteDependencies(route), req) ELSE 200,
                 handler_executed |-> SolveDependencies(RouteDependencies(route), req) = 0]
    /\ UNCHANGED <<chatVars, otherVars>>

\* GET /api/admin/chatbot/conversations and the other routes declared with
\* dependencies=[Depends(check_for_authentication_cookie), Depends(require_admin)]
AdminOnlyRoute(req) == ServeRoute("admin_only", req)
\* the contact router mounted under /api/admin
AdminContactsRoute(req) == ServeRoute("admin_contacts", req)
\* the user profile router mounted under /api/user
UserProfileRoute(req) == ServeRoute("user_profile", req)

IdleTables ==
    /\ conversations = [s \in SessionIds |-> NoConv]
    /\ messages = [s \in SessionIds |-> << >>]
    /\ escalations = [s \in SessionIds |-> << >>]
    /\ meetings = << >>
    /\ properties = {}
    /\ screening = ScreeningIdle
    /\ applications = << >>

InitAuth ==
    /\ IdleTables
    /\ request = AuthRequest("none", [cookie_token |-> "none", cookie_token_middleware |-> "none",
                                      bearer |-> "none"])
    /\ reply = [code |-> 0, handler_executed |-> FALSE]

NextAuth ==
    \/ \E req \in AuthRequests : AdminOnlyRoute(req)
    \/ \E req \in AuthRequests : AdminContactsRoute(req)
    \/ \E req \in AuthRequests : UserProfileRoute(req)

SpecAuth == InitAuth /\ [][NextAuth]_vars

\* the token a request is authenticated by
EffectiveToken(req) ==
    IF req.cookie_token # "none" THEN req.cookie_token
    ELSE IF req.cookie_token_middleware # "none" THEN req.cookie_token_middleware
    ELSE req.bearer

\* C1: a request to an admin-only route that carries a valid token of role 'user'
\* is answered 403 and the route's handler is not executed.
C1_AdminRouteRejectsUser ==
    (request.op = "admin_only" /\ EffectiveToken(request) = "user")
        => (reply.code = 403 /\ ~reply.handler_executed)

\* tokens that validate_token rejects, and the absence of a token
Unauthenticated == {"none", "expired", "forged"}

\* C13: a request to a route protected by check_for_authentication_cookie that
\* carries no token, or an expired or forged one, in the 'token' cookie, the
\* 'token_middleware' cookie and the bearer header is answered 401 and the
\* route's handler is not executed.
C13_UnauthenticatedRejected ==
    (/\ request.op \in {"admin_only", "admin_contacts", "user_profile"}
     /\ request.cookie_token \in Unauthenticated
     /\ request.cookie_token_middleware \in Unauthenticated
     /\ request.bearer \in Unauthenticated)
        => (reply.code = 401 /\ ~reply.handler_executed)

\* an expired cookie and a forged bearer token were rejected on an admin-only route
C13_Witness ==
    /\ request.op = "admin_only"
    /\ request.cookie_token = "expired"
    /\ request.cookie_token_middleware = "none"
    /\ request.bearer = "forged"
    /\ reply.code = 401
    /\ ~reply.handler_executed

(***************************************************************************)
(* Screening submission and its automatic recommendation:                  *)
(* src/controller/screeningQuestionController.py,                          *)
(* src/controller/propertyRecommendationController.py                      *)
(***************************************************************************)
\* a ScreeningQuestion row: absent, or stored as active and required, active and
\* optional, or inactive
QuestionStates == {"absent", "required", "optional", "inactive"}

\* create_property_recommendation_from_screening(screening_id): the id of the
\* ScreeningResponse is looked up in the ScreeningQuestion table.  No row: 404.
\* A row: the function reads screening.responses, an attribute ScreeningQuestion
\* does not have; the AttributeError becomes 500.  The lines after that, which
\* build the PropertyRecommendation, are never reached.
create_property_recommendation_from_screening(screening_id, questions) ==
    IF screening_id \notin QuestionIds \/ questions[screening_id] = "absent"
    THEN [raised |-> 404, created |-> FALSE]
    ELSE [raised |-> 500, created |-> FALSE]

\* the validation loop of submit_response over the answers: the status of the
\* HTTPException raised, 0 when every answer passes
RECURSIVE ValidateAnswers(_, _)
ValidateAnswers(answers, questions) ==
    IF answers = << >> THEN 0
    ELSE LET answer_data == Head(answers) IN
         IF answer_data.question_id \notin QuestionIds
            \/ questions[answer_data.question_id] \in {"absent", "inactive"}
         THEN 400
         ELSE IF ~answer_data.answered /\ questions[answer_data.question_id] = "required"
         THEN 400
         ELSE ValidateAnswers(Tail(answers), questions)

AnswerData == [question_id : Uuids, answered : BOOLEAN]
AnswerLists == {<< >>} \cup {<<a>> : a \in AnswerData}
                \cup {<<a, b>> : a \in AnswerData, b \in {[question_id |-> "u2", answered |-> TRUE]}}

\* POST /screening/responses -> ScreeningQuestionController.submit_response: the
\* response and its answers are created in one transaction, which an HTTPException
\* of the validation rolls back; a failure of the recommendation is swallowed
SubmitScreeningResponse(full_name, answers) ==
    /\ Len(screening.responses) < MaxResponses
    /\ request' = [op |-> "submit_response", full_name |-> full_name, answers |-> answers]
    /\ UNCHANGED <<chatVars, applications>>
    /\ IF ValidateAnswers(answers, screening.questions) # 0
       THEN /\ reply' = [code |-> ValidateAnswers(answers, screening.questions),
                         response_id |-> NoText, generated |-> FALSE]
            /\ UNCHANGED screening
       ELSE \E id \in Uuids :
              /\ \A i \in 1..Len(screening.responses) : screening.responses[i].id # id
              /\ LET response == [id |-> id, full_name |-> full_name, answers |-> answers]
                     recommendation_result ==
                        create_property_recommendation_from_screening(id, screening.questions)
                 IN  /\ screening' =
                          [screening EXCEPT
                             !.responses = Append(@, response),
                             !.recommendations =
                                 IF recommendation_result.created
                                 THEN Append(@, [screening_id |-> id, user_name |-> full_name])
                                 ELSE @]
                     /\ reply' = [code |-> 200, response_id |-> id,
                                  generated |-> recommendation_result.raised = 0]

InitScreening ==
    /\ conversations = [s \in SessionIds |-> NoConv]
    /\ messages = [s \in SessionIds |-> << >>]
    /\ escalations = [s \in SessionIds |-> << >>]
    /\ meetings = << >>
    /\ properties = {}
    /\ applications = << >>
    /\ \E questions \in [QuestionIds -> QuestionStates] :
          screening = [ScreeningIdle EXCEPT !.questions = questions]
    /\ request = [op |-> "none", full_name |-> NoText, answers |-> << >>]
    /\ reply = [code |-> 0, response_id |-> NoText, generated |-> FALSE]

NextScreening ==
    \E full_name \in {"Ann"}, answers \in AnswerLists : SubmitScreeningResponse(full_name, answers)

SpecScreening == InitScreening /\ [][NextScreening]_vars

\* C7: after a screening response has been submitted successfully, a
\* PropertyRecommendation built from that response exists and the reply reports
\* recommendations.generated = true.
C7_RecommendationGenerated ==
    (request.op = "submit_response" /\ reply.code = 200)
        => /\ reply.generated
           /\ \E i \in 1..Len(screening.recommendations) :
                 /\ screening.recommendations[i].screening_id = reply.response_id
                 /\ screening.recommendations[i].user_name = request.full_name

(***************************************************************************)
(* Rental application submission: src/controller/applicationController.py  *)
(***************************************************************************)
\* the property_id of a submission: absent (NoText), empty, the id of a property
\* that may exist, a well-formed id no property has, a text that is no UUID
SubmittedPropertyIds == PropertyIds \cup {NoText, "", "p9", "not-a-uuid"}

\* uuid.UUID(text) succeeds
IsUuid(text) == text \in PropertyIds \cup {"p9"}

\* the property validation of handle_submit_application: the status of the
\* HTTPException it raises, 0 when it raises none
validate_property_id(property_id, props) ==
    IF ~Truthy(property_id) THEN 0
    ELSE IF ~IsUuid(property_id) THEN 400
    ELSE IF property_id \notin props THEN 404
    ELSE 0

\* handle_submit_application: the whole body runs inside try ... except Exception,
\* which turns every exception, the HTTPExceptions of the validation included,
\* into HTTP 500
submit_application_status(property_id, props) ==
    IF validate_property_id(property_id, props) # 0 THEN 500 ELSE 0

\* POST /applications/submit -> handle_submit_application
SubmitApplication(property_id, full_name) ==
    /\ Len(applications) < MaxApplications
    /\ request' = [op |-> "submit_application", property_id |-> property_id,
                   full_name |-> full_name]
    /\ UNCHANGED <<chatVars, screening>>
    /\ IF submit_application_status(property_id, properties) # 0
       THEN /\ reply' = [code |-> submit_application_status(property_id, properties),
                         property_info |-> NoText]
            /\ UNCHANGED applications
       ELSE /\ applications' = Append(applications,
                                      [property_id |-> IF Truthy(property_id) THEN property_id
                                                       ELSE NoText,
                                       full_name |-> full_name, status |-> "pending"])
            /\ reply' = [code |-> 200,
                         property_info |-> IF Truthy(property_id) THEN property_id ELSE NoText]

InitApplication ==
    /\ conversations = [s \in SessionIds |-> NoConv]
    /\ messages = [s \in SessionIds |-> << >>]
    /\ escalations = [s \in SessionIds |-> << >>]
    /\ meetings = << >>
    /\ properties \in SUBSET PropertyIds
    /\ screening = ScreeningIdle
    /\ applications = << >>
    /\ request = [op |-> "none", property_id |-> NoText, full_name |-> NoText]
    /\ reply = [code |-> 0, property_info |-> NoText]

NextApplication ==
    \E property_id \in SubmittedPropertyIds, full_name \in {"Ann", "Bob"} :
        SubmitApplication(property_id, full_name)

SpecApplication == InitApplication /\ [][NextApplication]_vars

\* C9: a rental application whose property_id names no existing property is
\* answered 404, one whose property_id is malformed 400, and neither creates a
\* RentalApplication row.
C9_UnknownPropertyRejected ==
    [][request'.op = "submit_application"
        => /\ (IsUuid(request'.property_id) /\ request'.property_id \notin properties)
                => (reply'.code = 404 /\ applications' = applications)
           /\ (Truthy(request'.property_id) /\ ~IsUuid(request'.property_id))
                => (reply'.code = 400 /\ applications' = applications)]_vars

\* ---------------------------------------------------------------------------
\* Property matching: PropertyMatchingService.calculate_property_match_score
\* ---------------------------------------------------------------------------

\* a text criterion or column that is absent (Python None)
Null == "<null>"

\* a numeric criterion or column that is absent (Python None)
NoNumber == -1

\* Python truthiness of an optional text: None and "" are false
Given(v) == v # Null /\ v # ""

\* Python truthiness of an optional number: None and 0 are false
GivenNumber(v) == v # NoNumber /\ v # 0

\* needle.lower() in hay.lower(), over the location and type names in use
LowerContains(needle, hay) ==
    <<needle, hay>> \in {<<"pune", "Pune">>, <<"pune", "Pune Division">>,
                         <<"apartment", "Apartment">>}

\* the property rows and the user_criteria dictionaries the scorer is applied to
ScoredProperties ==
    [price : {5, 15, 22, 30}, city : {Null, "Pune", "Mumbai"},
     state : {Null, "Pune Division"}, bedrooms : {NoNumber, 1, 2},
     bathrooms : {NoNumber, 1}, property_type : {"Apartment", "Villa"}]

UserCriteria ==
    [budget_min : {NoNumber, 0, 10}, budget_max : {NoNumber, 0, 20},
     preferred_location : {Null, "pune"}, bedrooms_required : {NoNumber, 0, 2},
     bathrooms_required : {NoNumber, 0, 1}, property_type_preference : {Null, "apartment"}]

\* one block of the scorer: what it adds to max_score, to score and to
\* match_reasons
ScorePart(max_score, score, reasons) ==
    [max_score |-> max_score, score |-> score, match_reasons |-> reasons]

NoPart == ScorePart(0, 0, << >>)

\* price <= budget_max * 1.1, in tenths
BudgetPart(p, c) ==
    IF ~(GivenNumber(c.budget_min) /\ GivenNumber(c.budget_max)) THEN NoPart
    ELSE IF c.budget_min <= p.price /\ p.price <= c.budget_max
         THEN ScorePart(30, 30, <<"Price within budget">>)
    ELSE IF 10 * p.price <= 11 * c.budget_max
         THEN ScorePart(30, 20, <<"Price close to budget">>)
    ELSE ScorePart(30, 0, << >>)

LocationPart(p, c) ==
    IF ~Given(c.preferred_location) THEN NoPart
    ELSE IF Given(p.city) /\ LowerContains(c.preferred_location, p.city)
         THEN ScorePart(25, 25, <<"Location match">>)
    ELSE IF Given(p.state) /\ LowerContains(c.preferred_location, p.state)
         THEN ScorePart(25, 15, <<"State match">>)
    ELSE ScorePart(25, 0, << >>)

BedroomsPart(p, c) ==
    IF ~GivenNumber(c.bedrooms_required) THEN NoPart
    ELSE IF GivenNumber(p.bedrooms) /\ p.bedrooms >= c.bedrooms_required
         THEN ScorePart(20, 20, <<"bedrooms available">>)
    ELSE IF GivenNumber(p.bedrooms) /\ p.bedrooms = c.bedrooms_required - 1
         THEN ScorePart(20, 10, <<"Close to bedroom requirement">>)
    ELSE ScorePart(20, 0, << >>)

BathroomsPart(p, c) ==
    IF ~GivenNumber(c.bathrooms_required) THEN NoPart
    ELSE IF GivenNumber(p.bathrooms) /\ p.bathrooms >= c.bathrooms_required
         THEN ScorePart(15, 15, <<"bathrooms available">>)
    ELSE ScorePart(15, 0, << >>)

PropertyTypePart(p, c) ==
    IF ~Given(c.property_type_preference) THEN NoPart
    ELSE IF Given(p.property_type)
            /\ LowerContains(c.property_type_preference, p.property_type)
         THEN ScorePart(10, 10, <<"Property type match">>)
    ELSE ScorePart(10, 0, << >>)

ScoreParts(p, c) ==
    <<BudgetPart(p, c), LocationPart(p, c), BedroomsPart(p, c), BathroomsPart(p, c),
      PropertyTypePart(p, c)>>

RECURSIVE SumMaxScore(_)
SumMaxScore(parts) ==
    IF parts = << >> THEN 0 ELSE Head(parts).max_score + SumMaxScore(Tail(parts))

RECURSIVE SumScore(_)
SumScore(parts) ==
    IF parts = << >> THEN 0 ELSE Head(parts).score + SumScore(Tail(parts))

RECURSIVE JoinReasons(_)
JoinReasons(parts) ==
    IF parts = << >> THEN << >>
    ELSE Head(parts).match_reasons \o JoinReasons(Tail(parts))

\* the returned pair; final_score = (score / max_score) * 100 is kept as the
\* exact fraction num / den, and is 0.0 when max_score is 0
calculate_property_match_score(property_obj, user_criteria) ==
    [final_score |->
        IF SumMaxScore(ScoreParts(property_obj, user_criteria)) > 0
        THEN [num |-> 100 * SumScore(ScoreParts(property_obj, user_criteria)),
              den |-> SumMaxScore(ScoreParts(property_obj, user_criteria))]
        ELSE [num |-> 0, den |-> 1],
     match_reasons |-> JoinReasons(ScoreParts(property_obj, user_criteria))]

NotScored == [final_score |-> [num |-> 0, den |-> 1], match_reasons |-> <<"<not scored>">>]

\* one call of the scorer on the drawn property and criteria
CalculateScore ==
    /\ reply = NotScored
    /\ reply' = calculate_property_match_score(request.property_obj, request.user_criteria)
    /\ UNCHANGED <<chatVars, otherVars, request>>

InitScore ==
    /\ IdleTables
    /\ request \in [op : {"score"}, property_obj : ScoredProperties,
                    user_criteria : UserCriteria]
    /\ reply = NotScored

NextScore == CalculateScore

SpecScore == InitScore /\ [][NextScore]_vars

\* the points a returned reason stands for
ReasonPoints(reason) ==
    CASE reason = "Price within budget" -> 30
      [] reason = "Price close to budget" -> 20
      [] reason = "Location match" -> 25
      [] reason = "State match" -> 15
      [] reason = "bedrooms available" -> 20
      [] reason = "Close to bedroom requirement" -> 10
      [] reason = "bathrooms available" -> 15
      [] reason = "Property type match" -> 10
      [] OTHER -> 0

RECURSIVE PointsAwarded(_)
PointsAwarded(reasons) ==
    IF reasons = << >> THEN 0
    ELSE ReasonPoints(Head(reasons)) + PointsAwarded(Tail(reasons))

\* the weights of the criteria present in user_criteria (the budget by its two
\* bounds)
SuppliedWeight(c) ==
    (IF c.budget_min # NoNumber /\ c.budget_max # NoNumber THEN 30 ELSE 0)
    + (IF c.preferred_location # Null THEN 25 ELSE 0)
    + (IF c.bedrooms_required # NoNumber THEN 20 ELSE 0)
    + (IF c.bathrooms_required # NoNumber THEN 15 ELSE 0)
    + (IF c.property_type_preference # Null THEN 10 ELSE 0)

\* C10: calculate_property_match_score returns 100 x (points awarded) / (sum of
\* the weights of the criteria the user supplied), with weights budget 30,
\* location 25, bedrooms 20, bathrooms 15 and property type 10; the result lies
\* in [0, 100] and is 0 when no criterion is supplied.
C10_ScoreIsWeightedShare ==
    (request.op = "score" /\ reply # NotScored)
        => /\ 0 <= reply.final_score.num
           /\ reply.final_score.num <= 100 * reply.final_score.den
           /\ IF SuppliedWeight(request.user_criteria) = 0
              THEN reply.final_score.num = 0
              ELSE reply.final_score.num * SuppliedWeight(request.user_criteria)
                   = 100 * PointsAwarded(reply.match_reasons) * reply.final_score.den

\* ---------------------------------------------------------------------------
\* Chatbot flows: restart, selection after an empty search, feedback, visits
\* ---------------------------------------------------------------------------

\* the question stored last for conversation s, when it awaits its answer
PendingIs(s, q) ==
    /\ messages[s] # << >>
    /\ messages[s][Len(messages[s])].q = q
    /\ ~Truthy(messages[s][Len(messages[s])].user_response)

\* conversation s was restarted and awaits the answer to the initial question
Restarted(s) ==
    /\ conversations[s].current_step = 0
    /\ conversations[s].flow_type = NoFlow
    /\ Len(messages[s]) > 1
    /\ PendingIs(s, get_initial_question.q)

\* C14: in the rent-inquiry flow an answer other than 'Yes, I'm satisfied' to a
\* search-result satisfaction prompt restarts the conversation: the reply is the
\* initial question, and the next answer selects a flow as the first answer of a
\* new conversation does.
C14_RestartSelectsFlow ==
    [][\A s \in SessionIds :
        /\ (/\ RespondStep(s)
            /\ conversations[s].flow_type = RENT_INQUIRY
            /\ PendingIs(s, "QRentNone")
            /\ Lower(request'.user_response) # "yes, i'm satisfied")
           => /\ reply'.question = get_initial_question.q
              /\ conversations'[s].current_step = 0
              /\ conversations'[s].flow_type = NoFlow
        /\ (RespondStep(s) /\ Restarted(s))
           => conversations'[s].flow_type
                 = determine_flow_from_response(request'.user_response)]_vars

\* C15: in the rent-inquiry flow, after a keyword search that found nothing,
\* answering with one of the listed properties stores it as the selected property
\* and the next question is 'What's your preferred contact method?'.
C15_SelectionAfterEmptySearch ==
    [][\A s \in SessionIds :
        (/\ RespondStep(s)
         /\ conversations[s].flow_type = RENT_INQUIRY
         /\ PendingIs(s, "QRentNone")
         /\ request'.user_response \in get_property_titles_for_choice(properties))
        => /\ conversations'[s].guest_email = Plain(request'.user_response)
           /\ reply'.question = "QContactMethod"]_vars

\* C16: in the feedback flow, after a rating below 4 the detailed-feedback
\* answer is stored and the next question is the follow-up-preference question;
\* after a rating of 4 or 5 the suggestions question is asked first and the
\* follow-up-preference question after it.
C16_FeedbackAfterRating ==
    [][\A s \in SessionIds :
        (RespondStep(s) /\ conversations[s].flow_type = FEEDBACK)
        => /\ PendingIs(s, "QFbImprove")
                => /\ messages'[s][Len(messages[s])].user_response = request'.user_response
                   /\ reply'.question = "QFbFollowup"
           /\ PendingIs(s, "QFbLiked") => reply'.question = "QFbSuggest"
           /\ PendingIs(s, "QFbSuggest") => reply'.question = "QFbFollowup"]_vars

\* the answer stored with the last question q of conversation s in msgs
AnswerTo(msgs, q) ==
    LET idx == {i \in 1..Len(msgs) : msgs[i].q = q} IN
    IF idx = {} THEN NoAnswer ELSE msgs[CHOOSE i \in idx : \A j \in idx : j <= i].user_response

\* C17: the schedule-visit flow answers the e-mail question with 'Property visit
\* scheduled successfully' only if a ScheduleMeeting with status PENDING was
\* created for the selected property, carrying the name, phone, e-mail, date and
\* time slot the user gave.
C17_ScheduledOnlyIfMeetingCreated ==
    [][\A s \in SessionIds :
        (RespondStep(s) /\ reply'.message = "Property visit scheduled successfully")
        => /\ Len(meetings') = Len(meetings) + 1
           /\ LET m == meetings'[Len(meetings')] IN
                /\ m.status = "pending"
                /\ m.property \in properties
                /\ m.property = AnswerTo(messages'[s], "QVisitFound")
                /\ m.full_name = AnswerTo(messages'[s], "QVisitName")
                /\ m.phone = AnswerTo(messages'[s], "QVisitPhone")
                /\ m.email = AnswerTo(messages'[s], "QVisitEmail")
                /\ m.meeting_date = AnswerTo(messages'[s], "QVisitDate")
                /\ m.meeting_time = MeetingTime(AnswerTo(messages'[s], "QVisitTime"))]_vars

\* C18: once a conversation is COMPLETED or ESCALATED, no /chatbot/start,
\* /chatbot/respond or /chatbot/satisfaction call changes its status or its
\* is_satisfied value or creates another escalation for it.
C18_ClosedConversationIsFinal ==
    [][\A s \in SessionIds :
        (Exists(s) /\ conversations[s].status \in {COMPLETED, ESCALATED})
        => /\ conversations'[s].status = conversations[s].status
           /\ conversations'[s].is_satisfied = conversations[s].is_satisfied
           /\ escalations'[s] = escalations[s]]_vars

\* the questions that echo the search keyword the user typed
SearchPrompts == {"QRentFound", "QRentNone", "QVisitFound", "QVisitNone"}

\* C20: the handler that processes an answer depends only on the bot-authored
\* wording of the pending question: an answer to a 'properties matching ...'
\* prompt is processed exactly as if the prompt echoed a keyword without any
\* routing phrase, whatever keyword the user typed.
C20_EchoedKeywordDoesNotRoute ==
    [][\A s \in SessionIds :
        (/\ RespondStep(s)
         /\ \A i \in TopIdx(messages[s]) :
               /\ messages[s][i].q \in SearchPrompts
               /\ ~Truthy(messages[s][i].user_response))
        => \E i \in TopIdx(messages[s]) :
              LET plain == chat_response_outcome(s, conversations[s], properties,
                               [messages[s] EXCEPT ![i].arg = "zzz"], i,
                               request'.user_response)
              IN  /\ reply' = plain.rep
                  /\ conversations'[s] = plain.c]_vars

\* ---------------------------------------------------------------------------
\* Admin conversation list: ConversationController.handle_get_conversations
\* ---------------------------------------------------------------------------

\* session ids of the conversations the admin list is taken over
ListedSessions == {"s1", "s2", "s3"}

\* the status query parameter: absent, empty, or a status name
StatusFilters == {NoText, "", ACTIVE, COMPLETED, ESCALATED}

\* the orders in which the database may return the rows S (the query has no
\* ORDER BY)
Orderings(S) ==
    {o \in [1..Cardinality(S) -> S] : \A i, j \in 1..Cardinality(S) : i # j => o[i] # o[j]}

\* query.offset(offset).limit(limit) over the rows in the order o
PageOf(o, offset, limit) ==
    [i \in 1..(IF Len(o) <= offset THEN 0
               ELSE IF Len(o) - offset < limit THEN Len(o) - offset ELSE limit)
        |-> o[offset + i]]

\* ChatbotConversation.all(), narrowed by .filter(status=status) when status is
\* truthy
FilteredSessions(convs, status) ==
    {s \in DOMAIN convs : convs[s].exists /\ (Truthy(status) => convs[s].status = status)}

\* ChatbotConversation.all().count()
total_count(convs) == Cardinality({s \in DOMAIN convs : convs[s].exists})

\* GET /admin/chatbot/conversations -> handle_get_conversations
GetConversations(page, limit, status) ==
    /\ request' = [op |-> "get_conversations", page |-> page, limit |-> limit,
                   status |-> status]
    /\ \E o \in Orderings(FilteredSessions(conversations, status)) :
          reply' = [code |-> 200,
                    conversations |->
                        [i \in DOMAIN PageOf(o, (page - 1) * limit, limit) |->
                            [session_id |-> PageOf(o, (page - 1) * limit, limit)[i],
                             status |->
                                conversations[PageOf(o, (page - 1) * limit, limit)[i]].status]],
                    pagination |-> [page |-> page, limit |-> limit,
                                    total |-> total_count(conversations),
                                    pages |-> (total_count(conversations) + limit - 1)
                                              \div limit]]
    /\ UNCHANGED <<chatVars, otherVars>>

\* conversations in any status, each with its initial question stored
InitAdminList ==
    /\ conversations \in [ListedSessions ->
            {NoConv} \cup {[NewConversation EXCEPT !.status = st] :
                               st \in {ACTIVE, COMPLETED, ESCALATED}}]
    /\ messages = [s \in ListedSessions |->
                      IF conversations[s].exists
                      THEN <<NewMessage(0, get_initial_question.q, "")>> ELSE << >>]
    /\ escalations = [s \in ListedSessions |-> << >>]
    /\ meetings = << >>
    /\ properties = {}
    /\ screening = ScreeningIdle
    /\ applications = << >>
    /\ request = [op |-> "none", page |-> 1, limit |-> 1, status |-> NoText]
    /\ reply = [code |-> 0, conversations |-> << >>,
                pagination |-> [page |-> 1, limit |-> 1, total |-> 0, pages |-> 0]]

NextAdminList ==
    \E page \in {1, 2}, limit \in {1, 2}, status \in StatusFilters :
        GetConversations(page, limit, status)

SpecAdminList == InitAdminList /\ [][NextAdminList]_vars

\* C11: for the admin conversation list called with a status filter, every
\* returned conversation has that status, and the pagination total and page
\* count equal the number of conversations having that status.
C11_FilteredListAndTotals ==
    (request.op = "get_conversations" /\ Truthy(request.status))
        => /\ \A i \in DOMAIN reply.conversations :
                 reply.conversations[i].status = request.status
           /\ reply.pagination.total
                 = Cardinality(FilteredSessions(conversations, request.status))
           /\ reply.pagination.pages
                 = (Cardinality(FilteredSessions(conversations, request.status))
                    + request.limit - 1) \div request.limit

\* ---------------------------------------------------------------------------
\* Public property listing: handle_get_properties_public
\* ---------------------------------------------------------------------------

\* ids of the Property rows the listing is taken over
ListedPropertyIds == {"p1", "p2"}

NoRow == [exists |-> FALSE, status |-> "<none>", city |-> "<none>", price |-> 0]

\* the Property rows: status, city and price (title, description and type of
\* these rows hold none of the keywords searched for)
PropertyRows ==
    [exists : {TRUE}, status : {"available", "rented", "maintenance"},
     city : {"Pune", "Mumbai"}, price : {10, 20}]

\* Property.filter(<field>__icontains=term) over the city column
CityMatches(rows, term) ==
    {id \in DOMAIN rows : rows[id].exists /\ LowerContains(term, rows[id].city)}

\* the query built from the parameters: status, keyword, city, min_price and
\* max_price (the remaining parameters are not sent)
PublicQuery(rows, keyword, city, min_price, max_price, status) ==
    {id \in DOMAIN rows :
        /\ rows[id].exists
        /\ Truthy(status) => rows[id].status = status
        /\ Truthy(keyword) => id \in CityMatches(rows, keyword)
        /\ Truthy(city) => LowerContains(city, rows[id].city)
        /\ min_price # NoNumber => rows[id].price >= min_price
        /\ max_price # NoNumber => rows[id].price <= max_price}

PropertiesReply(page, limit, rows, total) ==
    [code |-> 200, properties |-> rows,
     pagination |-> [total_count |-> total, page |-> page, limit |-> limit,
                     total_pages |-> (total + limit - 1) \div limit]]

\* GET /properties -> handle_get_properties_public.  The handler changes no
\* table, so one request per behaviour shows all it can do
GetPropertiesPublic(page, limit, keyword, city, min_price, max_price, status) ==
    /\ request.op = "none"
    /\ request' = [op |-> "get_properties_public", page |-> page, limit |-> limit,
                   keyword |-> keyword, city |-> city, min_price |-> min_price,
                   max_price |-> max_price, status |-> status]
    /\ IF Truthy(keyword) /\ CityMatches(properties, keyword) = {}
       THEN reply' = [code |-> 200, properties |-> << >>,
                      pagination |-> [total_count |-> 0, page |-> page, limit |-> limit,
                                      total_pages |-> 0]]
       ELSE \E o \in Orderings(PublicQuery(properties, keyword, city, min_price, max_price,
                                           status)) :
               reply' = PropertiesReply(page, limit,
                            [i \in DOMAIN PageOf(o, (page - 1) * limit, limit) |->
                                [id |-> PageOf(o, (page - 1) * limit, limit)[i],
                                 status |->
                                    properties[PageOf(o, (page - 1) * limit, limit)[i]].status]],
                            Len(o))
    /\ UNCHANGED <<chatVars, otherVars>>

InitPropertyList ==
    /\ conversations = [s \in SessionIds |-> NoConv]
    /\ messages = [s \in SessionIds |-> << >>]
    /\ escalations = [s \in SessionIds |-> << >>]
    /\ meetings = << >>
    /\ properties \in [ListedPropertyIds -> {NoRow} \cup PropertyRows]
    /\ screening = ScreeningIdle
    /\ applications = << >>
    /\ request = [op |-> "none", page |-> 1, limit |-> 1, keyword |-> NoText,
                  city |-> NoText, min_price |-> NoNumber, max_price |-> NoNumber,
                  status |-> NoText]
    /\ reply = [code |-> 0, properties |-> << >>,
                pagination |-> [total_count |-> 0, page |-> 1, limit |-> 1, total_pages |-> 0]]

NextPropertyList ==
    \E page \in {1, 2}, limit \in {1, 2}, keyword \in {NoText, "pune"},
       city \in {NoText, "pune"}, min_price \in {NoNumber, 15}, max_price \in {NoNumber, 15},
       status \in {NoText, "", "available", "rented"} :
        GetPropertiesPublic(page, limit, keyword, city, min_price, max_price, status)

SpecPropertyList == InitPropertyList /\ [][NextPropertyList]_vars

\* C12: the public property listing called without a status parameter returns
\* only properties whose status is 'available'.
C12_PublicListOnlyAvailable ==
    (request.op = "get_properties_public" /\ request.status = NoText)
        => \A i \in DOMAIN reply.properties : reply.properties[i].status = "available"

\* ---------------------------------------------------------------------------
\* Concurrent /chatbot/respond requests: handle_chat_response is a coroutine
\* that gives up the event loop at every awaited database call, and nothing
\* locks the rows it reads and writes
\* ---------------------------------------------------------------------------

\* messages stored before the model stops accepting concurrent answers
MaxConcurrentMsgs == 4

\* the requests in flight, each with the answer it carries
Workers == {"r1", "r2"}
WorkerAnswer(w) == IF w = "r1" THEN "answer one" ELSE "answer two"

\* a request's position in handle_chat_response and the objects it has loaded
IdleWorker ==
    [op |-> "respond", pc |-> "idle", session_id |-> NoText, user_response |-> NoText,
     conversation |-> NoConv, idx |-> 0, current_message |-> NewMessage(0, NoText, "")]

\* await ChatbotConversation.get_or_none(session_id=...), then the status guard
LoadConversation(w, session_id) ==
    /\ request[w].pc = "idle"
    /\ Len(messages[session_id]) < MaxConcurrentMsgs
    /\ IF conversations[session_id].status # ACTIVE
       THEN /\ request' = [request EXCEPT ![w] =
                   [IdleWorker EXCEPT !.session_id = session_id,
                                      !.user_response = WorkerAnswer(w)]]
            /\ reply' = [reply EXCEPT ![w] =
                   ErrorReply(session_id, 400, "Conversation is not active")]
       ELSE /\ request' = [request EXCEPT ![w] =
                   [IdleWorker EXCEPT !.pc = "loaded", !.session_id = session_id,
                                      !.user_response = WorkerAnswer(w),
                                      !.conversation = conversations[session_id]]]
            /\ reply' = [reply EXCEPT ![w] = NoReply]
    /\ UNCHANGED <<chatVars, otherVars>>

\* await ChatbotMessage.filter(conversation=...).order_by('-step_number').first()
FetchCurrentMessage(w) ==
    /\ request[w].pc = "loaded"
    /\ \E i \in TopIdx(messages[request[w].session_id]) :
          request' = [request EXCEPT ![w].pc = "fetched", ![w].idx = i,
                         ![w].current_message = messages[request[w].session_id][i]]
    /\ UNCHANGED <<chatVars, otherVars, reply>>

\* current_message.user_response = user_response; await current_message.save():
\* the row is written from the object loaded before
SaveAnswer(w) ==
    /\ request[w].pc = "fetched"
    /\ ~Truthy(request[w].current_message.user_response)
    /\ messages' = [messages EXCEPT ![request[w].session_id][request[w].idx] =
                       [request[w].current_message EXCEPT
                           !.user_response = request[w].user_response]]
    /\ request' = [request EXCEPT ![w].pc = "answered",
                       ![w].current_message.user_response = request[w].user_response]
    /\ UNCHANGED <<conversations, escalations, meetings, properties, otherVars, reply>>

\* the rows a flow handler writes: the conversation as the request holds it, the
\* messages it creates; PropertySearchController.handle_response saves the
\* current message once more
ApplyOutcome(w, out, resave) ==
    LET s == request[w].session_id IN
    /\ conversations' = [conversations EXCEPT ![s] = out.c]
    /\ messages' = [messages EXCEPT ![s] =
                       (IF resave THEN [@ EXCEPT ![request[w].idx] = request[w].current_message]
                                  ELSE @) \o out.add]
    /\ meetings' = meetings \o out.meet
    /\ reply' = [reply EXCEPT ![w] = out.rep]
    /\ request' = [request EXCEPT ![w].pc = "idle"]
    /\ UNCHANGED <<escalations, properties, otherVars>>

\* flow determination and the flow controller, run on the loaded objects
RunFlowHandler(w) ==
    /\ request[w].pc = "answered"
    /\ LET c == request[w].conversation
           c1 == IF c.current_step = 0 /\ c.flow_type = NoFlow
                 THEN [c EXCEPT !.flow_type =
                          determine_flow_from_response(request[w].user_response)]
                 ELSE c
       IN  ApplyOutcome(w, RouteToFlow(request[w].session_id, c1, properties,
                                       request[w].current_message, request[w].user_response),
                        c1.flow_type = PROPERTY_SEARCH)

\* the loaded message already has a response: _handle_standard_flow
RunStandardFlow(w) ==
    /\ request[w].pc = "fetched"
    /\ Truthy(request[w].current_message.user_response)
    /\ ApplyOutcome(w, handle_standard_flow(request[w].session_id, request[w].conversation),
                    FALSE)

\* a property_search conversation that awaits the answer to its first question
InitConcurrent ==
    /\ conversations = [s \in SessionIds |->
            [NewConversation EXCEPT !.flow_type = PROPERTY_SEARCH, !.current_step = 1]]
    /\ messages = [s \in SessionIds |->
            <<[NewMessage(0, get_initial_question.q, "") EXCEPT
                  !.user_response = "Find a property to rent"],
              NewMessage(1, FLOWS(PROPERTY_SEARCH)[1].q, "")>>]
    /\ escalations = [s \in SessionIds |-> << >>]
    /\ meetings = << >>
    /\ properties \in SUBSET PropertyIds
    /\ screening = ScreeningIdle
    /\ applications = << >>
    /\ request = [w \in Workers |-> IdleWorker]
    /\ reply = [w \in Workers |-> NoReply]

NextConcurrent ==
    \/ \E w \in Workers, session_id \in SessionIds : LoadConversation(w, session_id)
    \/ \E w \in Workers : FetchCurrentMessage(w)
    \/ \E w \in Workers : SaveAnswer(w)
    \/ \E w \in Workers : RunFlowHandler(w)
    \/ \E w \in Workers : RunStandardFlow(w)

SpecConcurrent == InitConcurrent /\ [][NextConcurrent]_vars

\* C19: when two /chatbot/respond requests for one session are processed
\* concurrently, the conversation never ends up with two messages sharing a
\* step_number, and an answer once recorded is never overwritten (at most one of
\* the requests records its answer against the pending question).
C19_ConcurrentRespondSafe ==
    [][\A s \in SessionIds :
        /\ \A i, j \in 1..Len(messages'[s]) :
              i # j => messages'[s][i].step_number # messages'[s][j].step_number
        /\ \A i \in 1..Len(messages[s]) :
              Truthy(messages[s][i].user_response)
                 => messages'[s][i].user_response = messages[s][i].user_response]_vars

====
